---- MODULE Spec2Model ----
(***************************************************************************)
(* A model of src/app.py: the scheduled job that reads the last seen      *)
(* publication timestamp from DynamoDB, fetches the Spitz news feed,      *)
(* filters the entries newer than the timestamp, stores the timestamp of  *)
(* the first feed entry and publishes one SNS notification.                *)
(*                                                                         *)
(* Each invocation of lambda_handler is a process with a program counter; *)
(* one action per call the handler makes (get_aws_resources,               *)
(* get_last_seen_timestamp, feedparser.parse, filter_new_articles,         *)
(* update_last_seen_timestamp, send_notification), so that the calls of    *)
(* different invocations can be ordered.                                   *)
(* Under Spec the invocations run one after another (the schedule's        *)
(* convention) and the site's feed changes only between them.              *)
(*                                                                         *)
(* Encodings.                                                              *)
(*   - An environment variable is <<>> when unset (os.environ.get gives    *)
(*     None) and <<s>> when set to the string s.                           *)
(*   - A struct_time is the 1-tuple <<tm_mday>> of a midnight in January   *)
(*     1970 (UTC); an entry without a publication time has                 *)
(*     published_parsed = <<>> (None).                                     *)
(*   - The DynamoDB table holds at most the one item of key LAST_SEEN_KEY: *)
(*     [kind |-> "absent"] no item, "null" an item whose value is None,    *)
(*     "str" an item whose value is a string, "num" a numeric value.       *)
(*   - A response body's message is a tuple of the pieces of the string.   *)
(***************************************************************************)
EXTENDS Integers, Sequences, FiniteSets, TLC

\* Bounds of the model.
MaxLen == 2      \* longest feed
MaxDay == 3      \* publication days are the first MaxDay days of 1970

\* calendar.timegm counts seconds.
SecondsPerDay == 86400

Procs == {1, 2}

None == <<>>

\* article.link: the program only copies it into the message, so two links
\* are enough to tell apart two entries that carry the same publication time.
Links == {"news/7914/", "news/7915/"}
StructTimes == {<<d>> : d \in 1..MaxDay}

\* feed.entries[i]: the fields of a FeedParserDict that the program reads.
\* title is not modelled apart from link: both only go into the message.
Entries == [link : Links, published_parsed : StructTimes \cup {None}]

RECURSIVE SeqsUpTo(_, _)
SeqsUpTo(S, n) ==
    IF n = 0 THEN {<<>>}
    ELSE LET shorter == SeqsUpTo(S, n - 1)
         IN  shorter \cup {Append(s, e) : s \in {t \in shorter : Len(t) = n - 1}, e \in S}

\* What feedparser.parse(SPITZ_NEWS_FEED_URL).entries can be.
Feeds == SeqsUpTo(Entries, MaxLen)

\* os.environ.get("TABLE_NAME"), os.environ.get("TOPIC_ARN")
EnvValues == {None, <<"">>, <<"set">>}

\* calendar.timegm on a struct_time of this model: seconds since the epoch.
timegm(t) == (t[1] - 1) * SecondsPerDay

Timestamps == {timegm(t) : t \in StructTimes}

\* What the table can hold before the first run: nothing, a null, a string,
\* or a number (one of the feed's timestamps, or one later than all of them).
NoItem == [kind |-> "absent", val |-> 0]

StoredItems ==
    {NoItem, [kind |-> "null", val |-> 0],
     [kind |-> "str", val |-> 0]}
    \cup {[kind |-> "num", val |-> v] : v \in Timestamps \cup {timegm(<<MaxDay + 1>>)}}

\* ------------------------------------------------------------------------
\* Pure functions of app.py

\* `not table_name or not topic_arn`: None and "" are both falsy.
Falsy(v) == v = None \/ v = <<"">>

\* Variant: `and` for `or`.
ConfigMissing_and(table_name, topic_arn) == Falsy(table_name) /\ Falsy(topic_arn)

ConfigMissing(table_name, topic_arn) == Falsy(table_name) \/ Falsy(topic_arn)

\* `entry_timestamp <= last_seen_timestamp`, the test that ends the scan.
\* Variant: `<` for `<=`.
AlreadySeen_lt(entry_timestamp, last_seen_timestamp) ==
    entry_timestamp < last_seen_timestamp

AlreadySeen(entry_timestamp, last_seen_timestamp) ==
    entry_timestamp <= last_seen_timestamp

\* The for loop of filter_new_articles from index i on, new_articles = acc.
\* calendar.timegm(None) raises TypeError.
RECURSIVE FilterLoop(_, _, _, _)
RECURSIVE FilterLoop_continue(_, _, _, _)
RECURSIVE FilterLoop_none_is_oldest(_, _, _, _)
RECURSIVE FilterLoop_oldest_first(_, _, _, _)
RECURSIVE FilterLoop_append_first(_, _, _, _)

\* Variant: an entry without a publication time counts as the oldest.
FilterLoop_none_is_oldest(feed_entries, last_seen_timestamp, i, acc) ==
    IF i > Len(feed_entries)
    THEN [raised |-> FALSE, value |-> acc]
    ELSE IF feed_entries[i].published_parsed = None
    THEN [raised |-> FALSE, value |-> acc]
    ELSE IF AlreadySeen(timegm(feed_entries[i].published_parsed),
                        last_seen_timestamp)
    THEN [raised |-> FALSE, value |-> acc]
    ELSE FilterLoop_none_is_oldest(feed_entries, last_seen_timestamp, i + 1,
                                   Append(acc, feed_entries[i]))

\* Variant: the entry is appended before its timestamp is tested.
FilterLoop_append_first(feed_entries, last_seen_timestamp, i, acc) ==
    IF i > Len(feed_entries)
    THEN [raised |-> FALSE, value |-> acc]
    ELSE IF feed_entries[i].published_parsed = None
    THEN [raised |-> TRUE, value |-> <<>>]
    ELSE IF AlreadySeen(timegm(feed_entries[i].published_parsed),
                        last_seen_timestamp)
    THEN [raised |-> FALSE, value |-> Append(acc, feed_entries[i])]
    ELSE FilterLoop_append_first(feed_entries, last_seen_timestamp, i + 1,
                                 Append(acc, feed_entries[i]))

\* Variant: new_articles.insert(0, entry) for new_articles.append(entry).
FilterLoop_oldest_first(feed_entries, last_seen_timestamp, i, acc) ==
    IF i > Len(feed_entries)
    THEN [raised |-> FALSE, value |-> acc]
    ELSE IF feed_entries[i].published_parsed = None
    THEN [raised |-> TRUE, value |-> <<>>]
    ELSE IF AlreadySeen(timegm(feed_entries[i].published_parsed),
                        last_seen_timestamp)
    THEN [raised |-> FALSE, value |-> acc]
    ELSE FilterLoop_oldest_first(feed_entries, last_seen_timestamp, i + 1,
                                 <<feed_entries[i]>> \o acc)

\* Variant: `continue` for `break`.
FilterLoop_continue(feed_entries, last_seen_timestamp, i, acc) ==
    IF i > Len(feed_entries)
    THEN [raised |-> FALSE, value |-> acc]
    ELSE IF feed_entries[i].published_parsed = None
    THEN [raised |-> TRUE, value |-> <<>>]
    ELSE FilterLoop_continue(
             feed_entries, last_seen_timestamp, i + 1,
             IF AlreadySeen(timegm(feed_entries[i].published_parsed),
                            last_seen_timestamp)
             THEN acc ELSE Append(acc, feed_entries[i]))

FilterLoop(feed_entries, last_seen_timestamp, i, acc) ==
    IF i > Len(feed_entries)
    THEN [raised |-> FALSE, value |-> acc]
    ELSE IF feed_entries[i].published_parsed = None
    THEN [raised |-> TRUE, value |-> <<>>]
    ELSE IF AlreadySeen(timegm(feed_entries[i].published_parsed),
                        last_seen_timestamp)
    THEN [raised |-> FALSE, value |-> acc]
    ELSE FilterLoop(feed_entries, last_seen_timestamp, i + 1,
                    Append(acc, feed_entries[i]))

filter_new_articles(feed_entries, last_seen_timestamp) ==
    FilterLoop(feed_entries, last_seen_timestamp, 1, <<>>)

\* Variant: a value of an unexpected type defaults to 0.
get_last_seen_timestamp_lenient(item) ==
    IF item.kind = "num" THEN [raised |-> FALSE, value |-> item.val]
    ELSE [raised |-> FALSE, value |-> 0]

\* get_last_seen_timestamp after table.get_item returned `item`.
get_last_seen_timestamp(item) ==
    IF item.kind = "absent" THEN [raised |-> FALSE, value |-> 0]
    ELSE IF item.kind = "null" THEN [raised |-> FALSE, value |-> 0]
    ELSE IF item.kind = "num" THEN [raised |-> FALSE, value |-> item.val]
    ELSE [raised |-> TRUE, value |-> 0]

\* Variant: feed.entries[-1] for feed.entries[0].
latest_feed_timestamp_last(feed_entries) ==
    timegm(feed_entries[Len(feed_entries)].published_parsed)

\* latest_feed_timestamp = calendar.timegm(feed.entries[0].published_parsed)
latest_feed_timestamp(feed_entries) == timegm(feed_entries[1].published_parsed)

\* The message send_notification builds: the subject carries the count, the
\* body one block (title and link, publication time) per article, in order.
Message(new_articles) ==
    [count |-> Len(new_articles),
     body  |-> [i \in 1..Len(new_articles) |->
                  <<new_articles[i].link, new_articles[i].published_parsed>>]]

\* Response bodies.
ConfigErrorResult ==
    [statusCode |-> 500,
     message |-> <<"Configuration error: Missing environment variables.">>]
NoEntriesResult ==
    [statusCode |-> 500, message |-> <<"No entries found in feed.">>]
NoNewNewsResult ==
    [statusCode |-> 200, message |-> <<"No new news found.">>]
NotifiedResult(n) ==
    [statusCode |-> 200,
     message |-> <<"Found and notified about ", n, " new articles.">>]
ErrorResult(e) ==
    [statusCode |-> 500, message |-> <<"Error: ", e>>]
NoResult == [statusCode |-> 0, message |-> <<>>]

\* ------------------------------------------------------------------------
\* State

VARIABLES
    site,                \* the entries the feed URL serves now
    store,               \* the item of key LAST_SEEN_KEY in the table
    published,           \* the messages SNS accepted from each invocation
    pc,                  \* where each invocation is
    table_name,          \* locals of lambda_handler, per invocation
    topic_arn,
    last_seen_timestamp,
    feed,
    new_articles,
    result,              \* the dict lambda_handler returned
    calls,               \* history: the handler's calls and how each ended
    store_at_start,      \* history: the item at the invocation's start
    prev,                \* history: how the last invocation that returned ended
    republished,         \* history: the site changed since that invocation
    ledger,              \* history: for each entry of site, how often it was
                         \* notified and how its first fetch found it
    course               \* history: from what the runs started, and whether
                         \* a step failed or the site lost or reordered entries

locals == <<table_name, topic_arn, last_seen_timestamp, feed, new_articles>>
vars == <<site, store, published, pc, table_name, topic_arn, last_seen_timestamp,
          feed, new_articles, result, calls, store_at_start, prev, republished,
          ledger, course>>

NoPrev == [returned |-> FALSE, notification_failed |-> FALSE]

\* The ledger line of an entry no invocation has fetched.
Unfetched == [sent |-> 0, first |-> "unfetched"]

Init ==
    /\ site \in Feeds
    /\ store \in StoredItems
    /\ published = [p \in Procs |-> <<>>]
    /\ pc = [p \in Procs |-> "idle"]
    /\ table_name = [p \in Procs |-> None]
    /\ topic_arn = [p \in Procs |-> None]
    /\ last_seen_timestamp = [p \in Procs |-> 0]
    /\ feed = [p \in Procs |-> <<>>]
    /\ new_articles = [p \in Procs |-> <<>>]
    /\ result = [p \in Procs |-> NoResult]
    /\ calls = [p \in Procs |-> <<>>]
    /\ store_at_start = [p \in Procs |-> NoItem]
    /\ prev = NoPrev
    /\ republished = FALSE
    /\ ledger = [k \in DOMAIN site |-> Unfetched]
    /\ course = IF store.kind = "absent" THEN "from_nothing" ELSE "from_checkpoint"

AllIdle == \A q \in Procs : pc[q] = "idle"
FirstIdle == CHOOSE q \in Procs : pc[q] = "idle" /\ \A r \in Procs : pc[r] = "idle" => q <= r

\* return {...}: the invocation is over, its result set.
\* The results that report a failed step.
Failed(r) ==
    \/ r = ConfigErrorResult
    \/ r.statusCode = 500 /\ r.message[1] = "Error: "

Finish(p, r) ==
    /\ pc' = [pc EXCEPT ![p] = "done"]
    /\ result' = [result EXCEPT ![p] = r]
    /\ course' = IF Failed(r) THEN "disturbed" ELSE course

Goto(p, label) ==
    /\ pc' = [pc EXCEPT ![p] = label]
    /\ UNCHANGED <<result, course>>

\* The entries the site gained since invocation p fetched its feed: entry i
\* of feed[p] is entry i + Ahead(p) of site.
Ahead(p) == Len(site) - Len(feed[p])

\* The first fetch of an entry finds it new, old or without a time.
FirstFetch(e, last_seen) ==
    IF e.published_parsed = None THEN "undated"
    ELSE IF timegm(e.published_parsed) > last_seen THEN "new" ELSE "old"

\* The ledger once the invocation has fetched the site.
Fetched(last_seen) ==
    [k \in DOMAIN ledger |->
        IF ledger[k].first = "unfetched"
        THEN [ledger[k] EXCEPT !.first = FirstFetch(site[k], last_seen)]
        ELSE ledger[k]]

\* The ledger once the invocation's message has been accepted; the count
\* stops at two.
Notified(p) ==
    [k \in DOMAIN ledger |->
        IF k - Ahead(p) \in 1..Len(new_articles[p])
        THEN [ledger[k] EXCEPT !.sent = IF @ = 0 THEN 1 ELSE 2]
        ELSE ledger[k]]

\* History: the handler called `name`, which returned or raised.
Returned(name) == [name |-> name, raised |-> FALSE]
Raised(name) == [name |-> name, raised |-> TRUE]
Call(p, outcome) == calls' = [calls EXCEPT ![p] = Append(@, outcome)]

\* ------------------------------------------------------------------------
\* lambda_handler, one action per step

\* The scheduler invokes the handler while no other invocation runs, in
\* the first free slot. The handler reads its two environment variables and
\* returns the configuration error if either is missing or empty.
Invoke(p) ==
    /\ AllIdle
    /\ p = FirstIdle
    /\ \E tn \in EnvValues, ta \in EnvValues :
          /\ table_name' = [table_name EXCEPT ![p] = tn]
          /\ topic_arn' = [topic_arn EXCEPT ![p] = ta]
          /\ IF ConfigMissing(tn, ta)
             THEN Finish(p, ConfigErrorResult)
             ELSE Goto(p, "get_aws_resources")
    /\ store_at_start' = [store_at_start EXCEPT ![p] = store]
    /\ UNCHANGED <<site, store, published, last_seen_timestamp, feed,
                   new_articles, calls, prev, republished, ledger>>

\* dynamodb, sns = get_aws_resources(); table = dynamodb.Table(table_name).
\* boto3 may raise.
GetAwsResources(p) ==
    /\ pc[p] = "get_aws_resources"
    /\ \/ /\ Call(p, Returned("get_aws_resources"))
          /\ Goto(p, "get_last_seen_timestamp")
       \/ /\ Call(p, Raised("get_aws_resources"))
          /\ Finish(p, ErrorResult("boto3"))
    /\ UNCHANGED <<site, store, published, locals, store_at_start, prev,
                   republished, ledger>>

\* last_seen_timestamp = get_last_seen_timestamp(table): table.get_item,
\* which may raise, then the type check of the value.
GetLastSeenTimestamp(p) ==
    /\ pc[p] = "get_last_seen_timestamp"
    /\ \/ /\ Call(p, Raised("get_last_seen_timestamp"))
          /\ Finish(p, ErrorResult("get_item"))
          /\ UNCHANGED last_seen_timestamp
       \/ LET got == get_last_seen_timestamp(store)
          IN  IF got.raised
              THEN /\ Call(p, Raised("get_last_seen_timestamp"))
                   /\ Finish(p, ErrorResult("Unexpected type for timestamp"))
                   /\ UNCHANGED last_seen_timestamp
              ELSE /\ Call(p, Returned("get_last_seen_timestamp"))
                   /\ Goto(p, "parse")
                   /\ last_seen_timestamp' =
                         [last_seen_timestamp EXCEPT ![p] = got.value]
    /\ UNCHANGED <<site, store, published, table_name, topic_arn, feed,
                   new_articles, store_at_start, prev, republished, ledger>>

\* feed = feedparser.parse(SPITZ_NEWS_FEED_URL), which may raise, and the
\* `if not feed.entries` return.
FetchFeed(p) ==
    /\ pc[p] = "parse"
    /\ \/ /\ Call(p, Raised("parse"))
          /\ Finish(p, ErrorResult("parse"))
          /\ UNCHANGED <<feed, ledger>>
       \/ /\ Call(p, Returned("parse"))
          /\ feed' = [feed EXCEPT ![p] = site]
          /\ ledger' = Fetched(last_seen_timestamp[p])
          /\ IF site = <<>>
             THEN Finish(p, NoEntriesResult)
             ELSE Goto(p, "filter_new_articles")
    /\ UNCHANGED <<site, store, published, table_name, topic_arn,
                   last_seen_timestamp, new_articles, store_at_start, prev,
                   republished>>

\* Variant: without the `if not new_articles` return.
FilterNewArticles_no_empty_return(p) ==
    /\ pc[p] = "filter_new_articles"
    /\ LET got == filter_new_articles(feed[p], last_seen_timestamp[p])
       IN  IF got.raised
           THEN /\ Call(p, Raised("filter_new_articles"))
                /\ Finish(p, ErrorResult("timegm"))
                /\ UNCHANGED new_articles
           ELSE /\ Call(p, Returned("filter_new_articles"))
                /\ new_articles' = [new_articles EXCEPT ![p] = got.value]
                /\ Goto(p, "update_last_seen_timestamp")
    /\ UNCHANGED <<site, store, published, table_name, topic_arn,
                   last_seen_timestamp, feed, store_at_start, prev,
                   republished, ledger>>

\* new_articles = filter_new_articles(feed.entries, last_seen_timestamp) and
\* the `if not new_articles` return.
FilterNewArticles(p) ==
    /\ pc[p] = "filter_new_articles"
    /\ LET got == filter_new_articles(feed[p], last_seen_timestamp[p])
       IN  IF got.raised
           THEN /\ Call(p, Raised("filter_new_articles"))
                /\ Finish(p, ErrorResult("timegm"))
                /\ UNCHANGED new_articles
           ELSE /\ Call(p, Returned("filter_new_articles"))
                /\ new_articles' = [new_articles EXCEPT ![p] = got.value]
                /\ IF got.value = <<>>
                   THEN Finish(p, NoNewNewsResult)
                   ELSE Goto(p, "update_last_seen_timestamp")
    /\ UNCHANGED <<site, store, published, table_name, topic_arn,
                   last_seen_timestamp, feed, store_at_start, prev,
                   republished, ledger>>

\* Variant: the new timestamp is logged and not put.
UpdateLastSeenTimestamp_not_put(p) ==
    /\ pc[p] = "update_last_seen_timestamp"
    /\ Call(p, Returned("update_last_seen_timestamp"))
    /\ Goto(p, "send_notification")
    /\ UNCHANGED <<site, store, published, locals, store_at_start, prev,
                   republished, ledger>>

\* update_last_seen_timestamp(table, latest_feed_timestamp): table.put_item
\* overwrites the item, or raises.
UpdateLastSeenTimestamp(p) ==
    /\ pc[p] = "update_last_seen_timestamp"
    /\ \/ /\ Call(p, Raised("update_last_seen_timestamp"))
          /\ Finish(p, ErrorResult("put_item"))
          /\ UNCHANGED store
       \/ /\ Call(p, Returned("update_last_seen_timestamp"))
          /\ store' = [kind |-> "num", val |-> latest_feed_timestamp(feed[p])]
          /\ Goto(p, "send_notification")
    /\ UNCHANGED <<site, published, locals, store_at_start, prev, republished,
                   ledger>>

\* Variant: the topic drops a message that repeats an entry already notified.
SendNotification_deduplicated(p) ==
    /\ pc[p] = "send_notification"
    /\ \/ /\ Call(p, Raised("send_notification"))
          /\ Finish(p, ErrorResult("publish"))
          /\ UNCHANGED <<published, ledger>>
       \/ /\ Call(p, Returned("send_notification"))
          /\ IF \E k \in DOMAIN ledger :
                   /\ k - Ahead(p) \in 1..Len(new_articles[p])
                   /\ ledger[k].sent > 0
             THEN UNCHANGED <<published, ledger>>
             ELSE /\ published' =
                        [published EXCEPT
                            ![p] = Append(@, Message(new_articles[p]))]
                  /\ ledger' = Notified(p)
          /\ Finish(p, NotifiedResult(Len(new_articles[p])))
    /\ UNCHANGED <<site, store, locals, store_at_start, prev, republished>>

\* Variant: send_notification outside the try block, its exception escapes.
SendNotification_outside_try(p) ==
    /\ pc[p] = "send_notification"
    /\ \/ /\ Call(p, Raised("send_notification"))
          /\ Goto(p, "raised")
          /\ UNCHANGED <<published, ledger>>
       \/ /\ Call(p, Returned("send_notification"))
          /\ published' =
                [published EXCEPT ![p] = Append(@, Message(new_articles[p]))]
          /\ ledger' = Notified(p)
          /\ Finish(p, NotifiedResult(Len(new_articles[p])))
    /\ UNCHANGED <<site, store, locals, store_at_start, prev, republished>>

\* send_notification(sns, topic_arn, new_articles): sns.publish accepts the
\* message, or raises; then the final return.
SendNotification(p) ==
    /\ pc[p] = "send_notification"
    /\ \/ /\ Call(p, Raised("send_notification"))
          /\ Finish(p, ErrorResult("publish"))
          /\ UNCHANGED <<published, ledger>>
       \/ /\ Call(p, Returned("send_notification"))
          /\ published' =
                [published EXCEPT ![p] = Append(@, Message(new_articles[p]))]
          /\ ledger' = Notified(p)
          /\ Finish(p, NotifiedResult(Len(new_articles[p])))
    /\ UNCHANGED <<site, store, locals, store_at_start, prev, republished>>

\* The invocation is over: its frame is dropped, its outcome remembered.
Return(p) ==
    /\ pc[p] = "done"
    /\ prev' = [returned |-> TRUE,
                notification_failed |->
                    \E i \in DOMAIN calls[p] :
                        calls[p][i] = Raised("send_notification")]
    /\ republished' = FALSE
    /\ pc' = [pc EXCEPT ![p] = "idle"]
    /\ table_name' = [table_name EXCEPT ![p] = None]
    /\ topic_arn' = [topic_arn EXCEPT ![p] = None]
    /\ last_seen_timestamp' = [last_seen_timestamp EXCEPT ![p] = 0]
    /\ feed' = [feed EXCEPT ![p] = <<>>]
    /\ new_articles' = [new_articles EXCEPT ![p] = <<>>]
    /\ result' = [result EXCEPT ![p] = NoResult]
    /\ calls' = [calls EXCEPT ![p] = <<>>]
    /\ published' = [published EXCEPT ![p] = <<>>]
    /\ store_at_start' = [store_at_start EXCEPT ![p] = NoItem]
    /\ UNCHANGED <<site, store, ledger, course>>

\* Between two invocations the site publishes an article at the head of its
\* feed (whatever its publication time), or drops the last one.
Publish ==
    /\ AllIdle
    /\ Len(site) < MaxLen
    /\ \E e \in Entries : site' = <<e>> \o site
    /\ ledger' = <<Unfetched>> \o ledger
    /\ course' = "disturbed"
    /\ republished' = TRUE
    /\ UNCHANGED <<store, published, pc, locals, result, calls,
                   store_at_start, prev>>

Retire ==
    /\ AllIdle
    /\ site # <<>>
    /\ site' = SubSeq(site, 1, Len(site) - 1)
    /\ ledger' = SubSeq(ledger, 1, Len(ledger) - 1)
    /\ course' = "disturbed"
    /\ republished' = TRUE
    /\ UNCHANGED <<store, published, pc, locals, result, calls,
                   store_at_start, prev>>

Next ==
    \/ \E p \in Procs :
          \/ Invoke(p)
          \/ GetAwsResources(p)
          \/ GetLastSeenTimestamp(p)
          \/ FetchFeed(p)
          \/ FilterNewArticles(p)
          \/ UpdateLastSeenTimestamp(p)
          \/ SendNotification(p)
          \/ Return(p)
    \/ Publish
    \/ Retire

Spec == Init /\ [][Next]_vars

\* ------------------------------------------------------------------------
\* A site that only grows, and invocations that overlap

\* The link of the next article of a site serving `entries`: not the link
\* of the article before it.
NewLink(entries) ==
    IF entries = <<>> THEN "news/7914/"
    ELSE CHOOSE l \in Links : l # entries[1].link

\* The site publishes an article at the head of its feed, dated no earlier
\* than the one before it; invocations may be running.
PublishNewer ==
    /\ Len(site) < MaxLen
    /\ \E t \in StructTimes :
          /\ site # <<>> => timegm(t) >= timegm(site[1].published_parsed)
          /\ site' = <<[link |-> NewLink(site), published_parsed |-> t]>> \o site
    /\ ledger' = <<Unfetched>> \o ledger
    /\ republished' = TRUE
    /\ UNCHANGED <<store, published, pc, locals, result, calls,
                   store_at_start, prev, course>>

\* The site serves a newest-first feed of dated entries, each published by
\* PublishNewer.
GrowInit ==
    /\ Init
    /\ \A i \in DOMAIN site : site[i].published_parsed # None
    /\ \A i \in DOMAIN site : \A j \in DOMAIN site :
          i < j => timegm(site[i].published_parsed) >=
                   timegm(site[j].published_parsed)
    /\ \A i \in DOMAIN site :
          site[i].link = NewLink(SubSeq(site, i + 1, Len(site)))

GrowNext ==
    \/ \E p \in Procs :
          \/ Invoke(p)
          \/ GetAwsResources(p)
          \/ GetLastSeenTimestamp(p)
          \/ FetchFeed(p)
          \/ FilterNewArticles(p)
          \/ UpdateLastSeenTimestamp(p)
          \/ SendNotification(p)
          \/ Return(p)
    \/ PublishNewer

GrowSpec == GrowInit /\ [][GrowNext]_vars

\* The scheduler invokes the handler while another invocation is running:
\* nothing in lambda_handler excludes it. Both run in one deployment, so
\* the new invocation reads the environment the running one read.
Overlap(p) ==
    /\ pc[p] = "idle"
    /\ ~AllIdle
    /\ p = FirstIdle
    /\ \E q \in Procs \ {p} :
        LET tn == table_name[q]
            ta == topic_arn[q]
        IN
          /\ table_name' = [table_name EXCEPT ![p] = tn]
          /\ topic_arn' = [topic_arn EXCEPT ![p] = ta]
          /\ IF ConfigMissing(tn, ta)
             THEN Finish(p, ConfigErrorResult)
             ELSE Goto(p, "get_aws_resources")
    /\ store_at_start' = [store_at_start EXCEPT ![p] = store]
    /\ UNCHANGED <<site, store, published, last_seen_timestamp, feed,
                   new_articles, calls, prev, republished, ledger>>

ConcNext ==
    \/ GrowNext
    \/ \E p \in Procs : Overlap(p)

ConcSpec == GrowInit /\ [][ConcNext]_vars

\* ------------------------------------------------------------------------
\* Vocabulary of the properties

Has(p, outcome) == \E i \in DOMAIN calls[p] : calls[p][i] = outcome
Called(p, name) == Has(p, Returned(name)) \/ Has(p, Raised(name))
TimesCalled(p, name) ==
    Cardinality({i \in DOMAIN calls[p] : calls[p][i].name = name})

\* The number an item stands for; no item, or a null, stands for 0.
Stored(item) == IF item.kind = "num" THEN item.val ELSE 0

Running(p) == pc[p] # "idle"
Done(p) == pc[p] = "done"

\* The invocation wrote no checkpoint and no message left it.
NoWriteNoNotification(p) ==
    /\ ~Called(p, "update_last_seen_timestamp")
    /\ ~Called(p, "send_notification")
    /\ store = store_at_start[p]
    /\ published[p] = <<>>

\* ------------------------------------------------------------------------
\* C1: when the fetched feed has no entries the run ends with statusCode 200
\* and the message "No entries found in feed.", having written no checkpoint
\* and sent no notification.
C1_EmptyFeedIsNotAnError ==
    \A p \in Procs :
        (Done(p) /\ Has(p, Returned("parse")) /\ feed[p] = <<>>) =>
            /\ result[p] = [statusCode |-> 200,
                            message |-> <<"No entries found in feed.">>]
            /\ NoWriteNoNotification(p)

\* ------------------------------------------------------------------------
\* C2: whatever the entries and last_seen, filter_new_articles returns the
\* longest leading part of its input whose timestamps are all strictly
\* greater than last_seen, in input order: an entry whose timestamp equals
\* last_seen ends the scan, and nothing from it on is returned.
IsLongestNewPrefix(out, entries, last_seen) ==
    /\ Len(out) <= Len(entries)
    /\ \A i \in 1..Len(out) :
          /\ out[i] = entries[i]
          /\ entries[i].published_parsed # None
          /\ timegm(entries[i].published_parsed) > last_seen
    /\ Len(out) < Len(entries) =>
          /\ entries[Len(out) + 1].published_parsed # None
          /\ timegm(entries[Len(out) + 1].published_parsed) <= last_seen

C2_FilterReturnsLongestNewPrefix ==
    \A p \in Procs :
        Has(p, Returned("filter_new_articles")) =>
            IsLongestNewPrefix(new_articles[p], feed[p], last_seen_timestamp[p])

\* The scan stopped at an entry stamped exactly last_seen, after a new one,
\* the stop entry is not returned.
C2_Witness ==
    \E p \in Procs :
        /\ Has(p, Returned("filter_new_articles"))
        /\ Len(feed[p]) = 2
        /\ Len(new_articles[p]) = 1
        /\ timegm(feed[p][2].published_parsed) = last_seen_timestamp[p]

\* ------------------------------------------------------------------------
\* C3: with invocations run one after another, every checkpoint write stores
\* a value greater than or equal to the one stored when its run started.
C3_WriteNeverLowersCheckpoint ==
    [][\A p \in Procs :
          (pc[p] = "update_last_seen_timestamp" /\ pc'[p] = "send_notification") =>
              /\ store'.kind = "num"
              /\ store'.val >= Stored(store_at_start[p])
              /\ store'.val >= Stored(store)]_vars

\* A run that started from a stored number wrote, after an earlier run.
C3_Witness ==
    \E p \in Procs :
        /\ Has(p, Returned("update_last_seen_timestamp"))
        /\ store_at_start[p].kind = "num"
        /\ store_at_start[p].val > 0
        /\ prev.returned

\* ------------------------------------------------------------------------
\* C4: the checkpoint is written before the notification is attempted; when
\* the notification then fails the run reports a processing error (500), the
\* store keeps the advanced value, and the next run, over the same feed,
\* finds no new news, writes nothing and sends nothing.
IndexOf(p, name) == CHOOSE i \in DOMAIN calls[p] : calls[p][i].name = name

C4_WriteThenNotify ==
    \A p \in Procs :
        /\ Called(p, "send_notification") =>
              /\ Has(p, Returned("update_last_seen_timestamp"))
              /\ IndexOf(p, "update_last_seen_timestamp")
                    < IndexOf(p, "send_notification")
        /\ (Done(p) /\ Has(p, Raised("send_notification"))) =>
              /\ result[p].statusCode = 500
              /\ result[p].message[1] = "Error: "
              /\ published[p] = <<>>
              /\ store = [kind |-> "num",
                          val |-> timegm(feed[p][1].published_parsed)]
              /\ store.val > Stored(store_at_start[p])
        /\ (Running(p) /\ prev.notification_failed /\ ~republished) =>
              /\ ~Called(p, "update_last_seen_timestamp")
              /\ ~Called(p, "send_notification")
              /\ published[p] = <<>>
              /\ store = store_at_start[p]
              /\ Has(p, Returned("filter_new_articles")) =>
                    /\ new_articles[p] = <<>>
                    /\ Done(p)
                    /\ result[p] = [statusCode |-> 200,
                                    message |-> <<"No new news found.">>]

\* The run after a failed notification fetched the same feed and filtered it.
C4_Witness ==
    \E p \in Procs :
        /\ prev.notification_failed
        /\ ~republished
        /\ Has(p, Returned("filter_new_articles"))
        /\ Len(feed[p]) = 2

\* ------------------------------------------------------------------------
\* C5: when the feed has entries and none is new (its first entry is not
\* later than last_seen), the run returns 200 "No new news found.", the
\* stored checkpoint is unchanged and no notification is sent.
C5_NoNewNewsIsNoOp ==
    \A p \in Procs :
        ( /\ Done(p)
          /\ Has(p, Returned("parse"))
          /\ feed[p] # <<>>
          /\ feed[p][1].published_parsed # None
          /\ timegm(feed[p][1].published_parsed) <= last_seen_timestamp[p] ) =>
            /\ new_articles[p] = <<>>
            /\ result[p] = [statusCode |-> 200,
                            message |-> <<"No new news found.">>]
            /\ NoWriteNoNotification(p)

\* A single entry whose timestamp equals last_seen.
C5_Witness ==
    \E p \in Procs :
        /\ Done(p)
        /\ Has(p, Returned("parse"))
        /\ Len(feed[p]) = 1
        /\ feed[p][1].published_parsed # None
        /\ timegm(feed[p][1].published_parsed) = last_seen_timestamp[p]
        /\ last_seen_timestamp[p] > 0

\* ------------------------------------------------------------------------
\* C6: when TABLE_NAME or TOPIC_ARN is unset or empty the run returns the
\* configuration error with statusCode 500 and has called nothing: no
\* checkpoint read, no fetch, no checkpoint write, no notification.
Unusable(v) == v = None \/ v = <<"">>

C6_ConfigurationError ==
    \A p \in Procs :
        (Running(p) /\ (Unusable(table_name[p]) \/ Unusable(topic_arn[p]))) =>
            /\ Done(p)
            /\ result[p] =
                 [statusCode |-> 500,
                  message |->
                    <<"Configuration error: Missing environment variables.">>]
            /\ calls[p] = <<>>
            /\ NoWriteNoNotification(p)

\* TABLE_NAME is set and TOPIC_ARN is the empty string.
C6_Witness ==
    \E p \in Procs :
        /\ Done(p)
        /\ table_name[p] = <<"set">>
        /\ topic_arn[p] = <<"">>

\* ------------------------------------------------------------------------
\* C7: when the stored value is not numeric, get_last_seen_timestamp raises
\* instead of returning 0, and the run reports a processing error (500)
\* without fetching the feed, writing the checkpoint or notifying.
C7_InvalidCheckpointType ==
    \A p \in Procs :
        (store_at_start[p].kind = "str" /\ Called(p, "get_last_seen_timestamp")) =>
            /\ Done(p)
            /\ Has(p, Raised("get_last_seen_timestamp"))
            /\ result[p].statusCode = 500
            /\ result[p].message[1] = "Error: "
            /\ ~Called(p, "parse")
            /\ NoWriteNoNotification(p)

\* The read reached the type check and reported the unexpected type.
C7_Witness ==
    \E p \in Procs :
        /\ store_at_start[p].kind = "str"
        /\ Done(p)
        /\ result[p] = ErrorResult("Unexpected type for timestamp")

\* ------------------------------------------------------------------------
\* C8: when no checkpoint is stored (no item, or a null value)
\* get_last_seen_timestamp returns 0 without raising, and the run treats
\* every fetched entry as new: the filter returns the whole feed and, when
\* no call raises, the checkpoint is written and the notification carries
\* every fetched entry.
NothingRaised(p) == \A i \in DOMAIN calls[p] : ~calls[p][i].raised

C8_FirstRunTakesEveryEntry ==
    \A p \in Procs :
        (Running(p) /\ store_at_start[p].kind \in {"absent", "null"}) =>
            /\ result[p] # ErrorResult("Unexpected type for timestamp")
            /\ Has(p, Returned("get_last_seen_timestamp")) =>
                  last_seen_timestamp[p] = 0
            /\ Has(p, Returned("filter_new_articles")) =>
                  new_articles[p] = feed[p]
            /\ (Done(p) /\ Has(p, Returned("filter_new_articles"))
                        /\ NothingRaised(p)) =>
                  /\ Has(p, Returned("update_last_seen_timestamp"))
                  /\ published[p] = <<Message(feed[p])>>

\* ------------------------------------------------------------------------
\* C9 as stated: every run reads the checkpoint exactly once.
C9_EveryRunReadsOnce ==
    \A p \in Procs :
        Done(p) => TimesCalled(p, "get_last_seen_timestamp") = 1

\* C9: within one run the checkpoint is read at most once, and exactly once,
\* before the fetch, in every run that got its AWS resources; it is written
\* at most once, only after the filter returned a non-empty list, and the
\* store is unchanged in every run in which the write has not happened.
C9_ReadOnceWriteAtMostOnce ==
    \A p \in Procs :
        Running(p) =>
            /\ TimesCalled(p, "get_last_seen_timestamp") <= 1
            /\ (Done(p) /\ Has(p, Returned("get_aws_resources"))) =>
                  TimesCalled(p, "get_last_seen_timestamp") = 1
            /\ Called(p, "parse") =>
                  /\ TimesCalled(p, "parse") = 1
                  /\ Has(p, Returned("get_last_seen_timestamp"))
                  /\ IndexOf(p, "get_last_seen_timestamp") < IndexOf(p, "parse")
            /\ TimesCalled(p, "update_last_seen_timestamp") <= 1
            /\ Called(p, "update_last_seen_timestamp") =>
                  /\ Has(p, Returned("filter_new_articles"))
                  /\ new_articles[p] # <<>>
            /\ ~Has(p, Returned("update_last_seen_timestamp")) =>
                  store = store_at_start[p]

\* A run wrote the checkpoint, and so changed the store.
C9_Witness ==
    \E p \in Procs :
        /\ Done(p)
        /\ Has(p, Returned("update_last_seen_timestamp"))
        /\ store # store_at_start[p]

\* ------------------------------------------------------------------------
\* The handler's steps are taken: an invocation that is running runs on.
Step(p) ==
    \/ GetAwsResources(p)
    \/ GetLastSeenTimestamp(p)
    \/ FetchFeed(p)
    \/ FilterNewArticles(p)
    \/ UpdateLastSeenTimestamp(p)
    \/ SendNotification(p)

FairSpec == Spec /\ \A p \in Procs : WF_vars(Step(p))

\* C10: every invocation ends, with exactly one of the five outcomes and a
\* status code of 200 or 500; whatever the store, the fetch, the filter or
\* the notifier raises ends the run as a processing error (500).
IsOutcome(r, n) ==
    \/ r.message = <<"No entries found in feed.">>
    \/ r.message = <<"No new news found.">>
    \/ /\ Len(r.message) = 3
       /\ r.message[1] = "Found and notified about "
       /\ r.message[2] = n
       /\ n >= 1
    \/ r.message = <<"Configuration error: Missing environment variables.">>
    \/ /\ Len(r.message) = 2
       /\ r.message[1] = "Error: "

C10_OneOutcome ==
    \A p \in Procs :
        /\ Done(p) =>
              /\ IsOutcome(result[p], Len(new_articles[p]))
              /\ result[p].statusCode \in {200, 500}
        /\ (\E i \in DOMAIN calls[p] : calls[p][i].raised) =>
              /\ Done(p)
              /\ calls[p][Len(calls[p])].raised
              /\ result[p].statusCode = 500
              /\ Len(result[p].message) = 2
              /\ result[p].message[1] = "Error: "

C10_EveryInvocationEnds ==
    /\ []C10_OneOutcome
    /\ \A p \in Procs : Running(p) ~> Done(p)

\* A run ended on the notifier's exception.
C10_Witness ==
    \E p \in Procs :
        /\ Done(p)
        /\ Has(p, Raised("send_notification"))
        /\ result[p] = ErrorResult("publish")

\* ------------------------------------------------------------------------
\* Vocabulary of the properties on the filter

HasTime(e) == e.published_parsed # None
Key(e) == timegm(e.published_parsed)
AllHaveTime(entries) == \A i \in DOMAIN entries : HasTime(entries[i])

\* Newest first: every entry has a key and the keys never increase.
NewestFirst(entries) ==
    /\ AllHaveTime(entries)
    /\ \A i, j \in DOMAIN entries : i < j => Key(entries[i]) >= Key(entries[j])

\* The scan of `entries` against last_seen comes to an entry without a
\* publication time: every entry before it has a key greater than last_seen.
ScanReachesNoTime(entries, last_seen) ==
    \E k \in DOMAIN entries :
        /\ ~HasTime(entries[k])
        /\ \A i \in 1..(k - 1) :
              HasTime(entries[i]) /\ Key(entries[i]) > last_seen

\* ------------------------------------------------------------------------
\* C11: when the scan of filter_new_articles reaches an entry without a
\* publication time, the failure propagates: the run reports a processing
\* error, writes no checkpoint and sends no notification, also when the
\* entries scanned before it were new.
C11_MalformedEntryFailsTheRun ==
    \A p \in Procs :
        ( /\ Called(p, "filter_new_articles")
          /\ ScanReachesNoTime(feed[p], last_seen_timestamp[p]) ) =>
            /\ Has(p, Raised("filter_new_articles"))
            /\ Done(p)
            /\ new_articles[p] = <<>>
            /\ result[p].statusCode = 500
            /\ Len(result[p].message) = 2
            /\ result[p].message[1] = "Error: "
            /\ NoWriteNoNotification(p)

\* The first entry was new and the second has no publication time.
C11_Witness ==
    \E p \in Procs :
        /\ Done(p)
        /\ Has(p, Raised("filter_new_articles"))
        /\ Len(feed[p]) = 2
        /\ HasTime(feed[p][1])
        /\ Key(feed[p][1]) > last_seen_timestamp[p]
        /\ ~HasTime(feed[p][2])

\* ------------------------------------------------------------------------
\* C12: after filter_new_articles returned a non-empty list, the call on
\* the same entries with last_seen set to the key of the first returned
\* item returns the empty list.
C12_SecondCallReturnsEmpty ==
    \A p \in Procs :
        (Has(p, Returned("filter_new_articles")) /\ new_articles[p] # <<>>) =>
            LET again == filter_new_articles(feed[p], Key(new_articles[p][1]))
            IN  /\ ~again.raised
                /\ again.value = <<>>

\* The first call returned two items, the newest of them first.
C12_Witness ==
    \E p \in Procs :
        /\ Has(p, Returned("filter_new_articles"))
        /\ Len(new_articles[p]) = 2
        /\ Key(new_articles[p][1]) > Key(new_articles[p][2])

\* ------------------------------------------------------------------------
\* C13: when last_seen is strictly less than the key of every entry,
\* filter_new_articles returns all the entries, in the order of the input.
C13_AllNewReturnsAll ==
    \A p \in Procs :
        ( /\ Called(p, "filter_new_articles")
          /\ AllHaveTime(feed[p])
          /\ \A i \in DOMAIN feed[p] :
                Key(feed[p][i]) > last_seen_timestamp[p] ) =>
            /\ Has(p, Returned("filter_new_articles"))
            /\ new_articles[p] = feed[p]

\* Two entries with different keys, both later than the stored number.
C13_Witness ==
    \E p \in Procs :
        /\ Has(p, Returned("filter_new_articles"))
        /\ Len(feed[p]) = 2
        /\ new_articles[p] = feed[p]
        /\ Key(feed[p][1]) # Key(feed[p][2])
        /\ store_at_start[p].kind = "num"

\* ------------------------------------------------------------------------
\* C14: when last_seen is greater than or equal to the key of every entry,
\* filter_new_articles returns the empty list; so it does on no entries.
C14_NoneNewReturnsEmpty ==
    \A p \in Procs :
        ( /\ Has(p, Returned("get_last_seen_timestamp"))
          /\ AllHaveTime(feed[p])
          /\ \A i \in DOMAIN feed[p] :
                Key(feed[p][i]) <= last_seen_timestamp[p] ) =>
            /\ filter_new_articles(feed[p], last_seen_timestamp[p])
                   = [raised |-> FALSE, value |-> <<>>]
            /\ Called(p, "filter_new_articles") =>
                  /\ Has(p, Returned("filter_new_articles"))
                  /\ new_articles[p] = <<>>

\* Two entries, the first of them stamped exactly last_seen.
C14_Witness ==
    \E p \in Procs :
        /\ Has(p, Returned("filter_new_articles"))
        /\ Len(feed[p]) = 2
        /\ AllHaveTime(feed[p])
        /\ Key(feed[p][1]) = last_seen_timestamp[p]
        /\ Key(feed[p][2]) < last_seen_timestamp[p]
        /\ new_articles[p] = <<>>

\* ------------------------------------------------------------------------
\* C16 as stated: the value written is the key of the first fetched entry,
\* and so is greater than or equal to the key of every entry fetched in the
\* run.
C16_CheckpointCoversEveryEntry ==
    \A p \in Procs :
        Has(p, Returned("update_last_seen_timestamp")) =>
            /\ store = [kind |-> "num", val |-> Key(feed[p][1])]
            /\ \A i \in DOMAIN feed[p] :
                  HasTime(feed[p][i]) => store.val >= Key(feed[p][i])

\* C16: in a run that finds new entries the value written is the key of the
\* first entry of the fetched feed; it is greater than or equal to the key
\* of every fetched entry when the fetched feed is newest-first.
C16_CheckpointIsFirstEntrysKey ==
    \A p \in Procs :
        Has(p, Returned("update_last_seen_timestamp")) =>
            /\ new_articles[p] # <<>>
            /\ store = [kind |-> "num", val |-> Key(feed[p][1])]
            /\ store.val > last_seen_timestamp[p]
            /\ NewestFirst(feed[p]) =>
                  \A i \in DOMAIN feed[p] : store.val >= Key(feed[p][i])

\* The write of a run over a newest-first feed of two different keys, the
\* older of them not new.
C16_Witness ==
    \E p \in Procs :
        /\ Has(p, Returned("update_last_seen_timestamp"))
        /\ Len(feed[p]) = 2
        /\ NewestFirst(feed[p])
        /\ Key(feed[p][1]) > Key(feed[p][2])
        /\ Len(new_articles[p]) = 1

\* ------------------------------------------------------------------------
\* C18: on a newest-first input filter_new_articles returns exactly the
\* entries whose key is strictly greater than last_seen; on any input an
\* entry that follows one with key <= last_seen is left out, and the call
\* returns without raising.
NewOnes(entries, last_seen) ==
    LET IsNew(e) == Key(e) > last_seen
    IN  SelectSeq(entries, IsNew)

\* The scan meets an entry with key <= last_seen before any entry without
\* a publication time.
ScanStops(entries, last_seen) ==
    \E k \in DOMAIN entries :
        /\ \A i \in 1..k : HasTime(entries[i])
        /\ Key(entries[k]) <= last_seen

C18_ExactWhenNewestFirst ==
    \A p \in Procs :
        /\ (Called(p, "filter_new_articles") /\ NewestFirst(feed[p])) =>
              /\ Has(p, Returned("filter_new_articles"))
              /\ new_articles[p] = NewOnes(feed[p], last_seen_timestamp[p])
        /\ ( /\ Called(p, "filter_new_articles")
             /\ ScanStops(feed[p], last_seen_timestamp[p]) ) =>
              /\ Has(p, Returned("filter_new_articles"))
              /\ \A i, j \in DOMAIN feed[p] :
                    ( /\ i < j
                      /\ HasTime(feed[p][i])
                      /\ Key(feed[p][i]) <= last_seen_timestamp[p] ) =>
                        Len(new_articles[p]) < j

\* An entry newer than last_seen follows one that is not, and is left out.
C18_Witness ==
    \E p \in Procs :
        /\ Has(p, Returned("filter_new_articles"))
        /\ Len(feed[p]) = 2
        /\ AllHaveTime(feed[p])
        /\ Key(feed[p][1]) <= last_seen_timestamp[p]
        /\ Key(feed[p][2]) > last_seen_timestamp[p]
        /\ new_articles[p] = <<>>
        /\ Done(p)
        /\ result[p].statusCode = 200

\* ------------------------------------------------------------------------
\* Vocabulary of the properties on the ledger

\* The ledger line of entry i of the feed invocation p fetched.
Line(p, i) == ledger[i + Ahead(p)]

\* The step in which invocation p's checkpoint write returns.
Writes(p) ==
    /\ pc[p] = "update_last_seen_timestamp"
    /\ pc'[p] = "send_notification"

\* ------------------------------------------------------------------------
\* C15: nothing holds back the notification of an invocation that overlaps
\* another: the message it sends lists every entry its filter found new
\* against the checkpoint it read, whatever the other invocation has read,
\* written or notified; so two overlapping invocations that read the same
\* checkpoint both notify the same entry.
C15_OverlapNotifiesAgain ==
    \A p \in Procs :
        Has(p, Returned("send_notification")) =>
            /\ new_articles[p] # <<>>
            /\ IsLongestNewPrefix(new_articles[p], feed[p],
                                  last_seen_timestamp[p])
            /\ published[p] = <<Message(new_articles[p])>>
            /\ \A i \in 1..Len(new_articles[p]) : Line(p, i).sent >= 1

\* Two overlapping invocations read the same checkpoint, fetched the same
\* feed and both sent a notification with its first entry.
C15_Witness ==
    \E p \in Procs, q \in Procs :
        /\ p # q
        /\ Has(p, Returned("send_notification"))
        /\ Has(q, Returned("send_notification"))
        /\ last_seen_timestamp[p] = last_seen_timestamp[q]
        /\ feed[p] = feed[q]
        /\ published[p][1].body[1] = published[q][1].body[1]
        /\ Line(p, 1).sent = 2

\* ------------------------------------------------------------------------
\* C17: over a newest-first feed that only gains entries at the front, with
\* invocations run one after another, no entry is in the notification of
\* more than one run, whichever steps fail; a failure between the write and
\* the notification leaves an entry without notification.
C17_NoEntryNotifiedTwice ==
    \A k \in DOMAIN ledger : ledger[k].sent <= 1

\* A notification failed after the write; a later run finds no new news and
\* the entry that was new stays without notification.
C17_Witness ==
    \E p \in Procs :
        /\ prev.notification_failed
        /\ Done(p)
        /\ result[p] = NoNewNewsResult
        /\ \E k \in DOMAIN ledger :
              /\ ledger[k].first = "new"
              /\ ledger[k].sent = 0
              /\ Key(site[k]) <= Stored(store)

\* ------------------------------------------------------------------------
\* C19 as stated: also when invocations overlap, every checkpoint write
\* stores a value greater than or equal to the value stored immediately
\* before it.
C19_WriteNeverLowersUnderOverlap ==
    [][\A p \in Procs : Writes(p) => Stored(store') >= Stored(store)]_vars

\* C19: every checkpoint write stores the key of the first entry of the feed
\* its invocation fetched, which is strictly greater than the checkpoint that
\* invocation read; it is greater than the value stored immediately before
\* the write when that value is still the one the invocation read.
C19_WriteExceedsOwnRead ==
    [][\A p \in Procs :
          Writes(p) =>
              /\ store' = [kind |-> "num", val |-> Key(feed[p][1])]
              /\ store'.val > last_seen_timestamp[p]
              /\ Stored(store) = last_seen_timestamp[p] =>
                    store'.val > Stored(store)]_vars

\* An invocation has overwritten the greater value another wrote.
C19_Witness ==
    \E p \in Procs, q \in Procs :
        /\ p # q
        /\ pc[p] = "send_notification"
        /\ Has(q, Returned("update_last_seen_timestamp"))
        /\ NewestFirst(feed[p])
        /\ NewestFirst(feed[q])
        /\ store.val = Key(feed[p][1])
        /\ store.val < Key(feed[q][1])

\* ------------------------------------------------------------------------
\* C20 as stated: with nothing stored at first, every step succeeding and a
\* newest-first feed that only gains entries at the front, every entry of a
\* fetched feed (dated after the epoch) has been in the notification of
\* exactly one run when the run that fetched it ends.
C20_EveryFetchedEntryNotifiedOnce ==
    \A p \in Procs :
        ( /\ course = "from_nothing"
          /\ Done(p)
          /\ Has(p, Returned("parse"))
          /\ \A i \in DOMAIN feed[p] : Key(feed[p][i]) > 0 ) =>
            \A i \in DOMAIN feed[p] : Line(p, i).sent = 1

\* C20: with every step succeeding and a newest-first feed that only gains
\* entries at the front, an entry is in the notification of exactly one run,
\* the first that fetches it, when its key is strictly greater than the
\* checkpoint that run read; otherwise it is in no notification.
C20_NotifiedOnceIfNewWhenFirstFetched ==
    course # "disturbed" =>
        /\ \A k \in DOMAIN ledger :
              /\ ledger[k].sent <= 1
              /\ ledger[k].first # "new" => ledger[k].sent = 0
        /\ \A p \in Procs :
              (Done(p) /\ Has(p, Returned("parse"))) =>
                  \A i \in DOMAIN feed[p] :
                      /\ Line(p, i).first \in {"new", "old"}
                      /\ Line(p, i).first = "new" <=> Line(p, i).sent = 1

\* An entry published after the notification of one with the same time: the
\* run that fetches it finds no new news.
C20_Witness ==
    \E p \in Procs :
        /\ course = "from_nothing"
        /\ Done(p)
        /\ result[p] = NoNewNewsResult
        /\ \E i \in DOMAIN feed[p], j \in DOMAIN feed[p] :
              /\ i < j
              /\ Key(feed[p][i]) = Key(feed[p][j])
              /\ Key(feed[p][i]) = Stored(store)
              /\ Key(feed[p][i]) > 0
              /\ Line(p, i) = [sent |-> 0, first |-> "old"]
              /\ Line(p, j) = [sent |-> 1, first |-> "new"]

====
